---- MODULE Spec2Model ----
(***************************************************************************)
(* Model of the live conversation engine of the digital-twin chat backend: *)
(* the two WebSocket consumers (ChatConsumer, DigitalTwinChatConsumer),    *)
(* the channel-layer groups they publish to, the REST views that create    *)
(* Messages and VoiceRecordings, and the transcription worker thread.      *)
(***************************************************************************)
EXTENDS Integers, Sequences, FiniteSets, TLC

\* ------------------------------------------------------------------ bounds
MaxFrames == 1          \* inbound WebSocket frames in one behaviour
MaxRequests == 1        \* REST message requests in one behaviour
MaxReplays == 1         \* repeated deliveries of one channel-layer event
MaxBadFrames == 1       \* frames per socket that receive cannot route
MaxControl == 1         \* typing_indicator and read_receipt frames per socket
MaxBusEvents == 1
MaxSent == 1                           \* text frames per socket, taken statement by statement       \* events per socket that arrive from another publisher
MaxHistory == 17        \* Messages stored before the first frame

\* ------------------------------------------------------------ fixed data
Users == {"u1", "u2"}                  \* rows of the User table
Chats == {"c1", "c2"}                  \* rows of UserTwinChat
ChatIds == Chats \cup {"c9"}           \* "c9": a chat id with no row
Conns == {"k1", "k2"}                  \* sockets
Kinds == {"chat", "dt"}                \* ChatConsumer / DigitalTwinChatConsumer
VoiceIds == {"v1"}                     \* ids given to uploaded recordings

ChatOwner(c) == IF c = "c1" THEN "u1" ELSE "u2"
TwinName(c) == IF c = "c1" THEN "Ada" ELSE "Bob"

NoMsg == 0                             \* "no Message" (ids are 1..Len(messages))
NoVoice == "none"
NoChatId == "absent"                   \* an event without a chat_id key

UserText == "Hello"
CompletionText == "completion text"
TechnicalDifficulties == "I'm having some technical difficulties. Could you try again?"
UnexpectedFormat == "I'm not sure how to respond to that. Let's try another topic."

\* ------------------------------------------------------------------ state
VARIABLES
    chats,      \* UserTwinChat rows: [user_has_access, twin_is_active,
                \* last_active]; last_active holds its last writer
    messages,   \* Message rows in creation order; the id of a row is its index
    voices,     \* VoiceRecording rows by id
    conn,       \* per socket: lifecycle, consumer kind, scope, handler position
    loc,        \* per socket: locals of the handler in progress
    groups,     \* channel-layer group membership per chat topic
    inbox,      \* per socket: channel-layer events not yet dispatched
    out,        \* per socket: frames sent to the client, in order
    topic,      \* per chat: events published to the group and the channels
                \* in the group at that time, in publish order
    http,       \* status codes of the REST message requests, in order
    apiCalls,   \* requests made to the completion endpoint
    nframes,    \* inbound frames handled so far, which number the frames
    nreplays    \* repeated deliveries made by the channel layer so far

vars == <<chats, messages, voices, conn, loc, groups, inbox, out, topic, http,
          apiCalls, nframes, nreplays>>

\* ------------------------------------------------------------ record shapes
\* One shape for channel-layer events and for frames sent to a client.
BlankEv == [type |-> "", id |-> NoMsg, is_from_user |-> FALSE, text |-> "",
            reply_to |-> NoMsg, chat_id |-> NoChatId, is_typing |-> FALSE,
            user_id |-> "", voice_id |-> NoVoice, nid |-> 0, frame |-> 0,
            code |-> "", src |-> "ws", summary |-> << >>, ids |-> {}]

BlankLoc == [frame |-> 0, content |-> "", is_first |-> FALSE, reply_to |-> NoMsg,
             mid |-> NoMsg, voice |-> NoVoice, origin |-> "", context |-> << >>]

\* A socket.  "tok" is the token it connected with; "owned" and "flags" are
\* what the store held about the requested chat when connect looked;
\* "cleanups" counts the runs of its disconnect handler, "bad" the frames
\* it received that are not JSON, not a JSON object or of no known type, "ctl"
\* the typing_indicator and read_receipt frames it received, "typed" the
\* is_typing values of its typing_indicator frames in order, "fed" the
\* events put on its channel by a publisher other than the handlers here.
NoToken == [kind |-> "none", user_id |-> ""]

NewConn == [st |-> "new", kind |-> "chat", user |-> "", chat |-> "", pc |-> "idle",
            tok |-> NoToken, owned |-> FALSE, flags |-> FALSE, cleanups |-> 0,
            bad |-> 0, ctl |-> 0, typed |-> << >>, fed |-> 0, sent |-> 0]

TypingEv(b, who) ==
    [BlankEv EXCEPT !.type = "typing_indicator", !.is_typing = b, !.user_id = who]

ErrorEv(msg, code) ==
    [BlankEv EXCEPT !.type = "error", !.text = msg, !.code = code]

\* ---------------------------------------------------------------- helpers
MsgIds == 1..Len(messages)

ChatHasMessages(c) == \E i \in MsgIds : messages[i].chat = c

\* channel_layer.group_send, for the events one handler publishes in a row:
\* a copy of each to every channel now in the group, in publish order.
GroupSendFrom(queues, c, evs) ==
    /\ inbox' = [k \in Conns |-> IF k \in groups[c] THEN queues[k] \o evs
                                 ELSE queues[k]]
    /\ topic' = [topic EXCEPT ![c] =
                     @ \o [i \in 1..Len(evs) |-> [ev |-> evs[i], to |-> groups[c]]]]

GroupSend(c, evs) == GroupSendFrom(inbox, c, evs)

\* self.send
Send(k, ev) == out' = [out EXCEPT ![k] = Append(@, ev)]

\* chat.last_active = timezone.now(); chat.save(update_fields=['last_active']).
\* The timestamp is kept as the name of the operation that wrote it last:
\* "save" for a Message being saved, the socket for its disconnect.
Touch(c, who) == [chats EXCEPT ![c].last_active = who]

\* The worker's progress through transcribe_voice for one recording: where
\* it is, the upload attempts made ([resp, hint, before, after]: the response,
\* its Retry-After header, the seconds slept before the request and the sleep
\* made for the header), the submit requests, the status queries and the
\* waits between them, the last status response, and the way the job went.
NoSvc == [stage |-> "upload", retries |-> 0, attempts |-> << >>, submits |-> 0,
          polls |-> 0, waits |-> 0, last |-> "", outcome |-> ""]

\* ------------------------------------------------------------------- Init
\* Nothing uploaded, connected, queued, sent or requested yet.
InitIdle ==
    /\ voices = [v \in VoiceIds |-> [exists |-> FALSE, is_processed |-> FALSE,
                                     transcription |-> "", job |-> "none",
                                     chat_param |-> NoChatId, result |-> "",
                                     contacted |-> {}, by |-> "",
                                     svc |-> NoSvc]]
    /\ conn = [k \in Conns |-> NewConn]
    /\ loc = [k \in Conns |-> BlankLoc]
    /\ groups = [c \in ChatIds |-> {}]
    /\ inbox = [k \in Conns |-> <<>>]
    /\ out = [k \in Conns |-> <<>>]
    /\ topic = [c \in ChatIds |-> <<>>]
    /\ http = <<>>
    /\ apiCalls = {}
    /\ nframes = 0
    /\ nreplays = 0

Init ==
    /\ chats \in [Chats -> [user_has_access : BOOLEAN, twin_is_active : BOOLEAN,
                            last_active : {"never"}]]
    /\ chats["c2"].user_has_access /\ chats["c2"].twin_is_active
    /\ messages = <<>>
    /\ InitIdle

\* ------------------------------------------------------- connection gateway
\* The query-string token as the middleware sees it.
Tokens == [kind : {"absent", "garbage", "expired"}, user_id : {"u1"}]
          \cup [kind : {"valid"}, user_id : Users \cup {"u9"}]

\* A middleware that takes an expired token's user id for the user.
ScopeUserLenient(tok) ==
    CASE tok.kind = "absent" -> "unset"
      [] tok.kind = "garbage" -> "anonymous"
      [] OTHER -> IF tok.user_id \in Users THEN tok.user_id ELSE "anonymous"

\* JwtAuthMiddleware.__call__: the value of scope['user'] ("unset": no key).
ScopeUser(tok) ==
    CASE tok.kind = "absent" -> "unset"
      [] tok.kind \in {"garbage", "expired"} -> "anonymous"
      [] OTHER -> IF tok.user_id \in Users THEN tok.user_id ELSE "anonymous"

\* An access check that does not look at twin_is_active.
user_has_chat_access_no_twin(chat_id, user_id) ==
    IF chat_id \in Chats
    THEN /\ ChatOwner(chat_id) = user_id
         /\ chats[chat_id].user_has_access
    ELSE FALSE

\* user_has_chat_access (both consumers)
user_has_chat_access(chat_id, user_id) ==
    IF chat_id \in Chats
    THEN /\ ChatOwner(chat_id) = user_id
         /\ chats[chat_id].user_has_access
         /\ chats[chat_id].twin_is_active
    ELSE FALSE

\* connect, up to the access check.  A missing scope['user'] raises before
\* anything is set; an anonymous user or a refused chat is closed unaccepted.
Connect(k, kind, tok, chat_id) ==
    /\ conn[k].st = "new"
    /\ LET user == ScopeUser(tok)
           seen == [conn[k] EXCEPT !.tok = tok, !.kind = kind]
           looked == [seen EXCEPT !.chat = chat_id,
                                  !.owned = (chat_id \in Chats
                                             /\ ChatOwner(chat_id) = user),
                                  !.flags = (chat_id \in Chats
                                             /\ chats[chat_id].user_has_access
                                             /\ chats[chat_id].twin_is_active)]
       IN IF user \in {"unset", "anonymous"}
          THEN conn' = [conn EXCEPT ![k] = [seen EXCEPT !.st = "closed"]]
          ELSE IF ~user_has_chat_access(chat_id, user)
          THEN conn' = [conn EXCEPT ![k] = [looked EXCEPT !.st = "closed"]]
          ELSE conn' = [conn EXCEPT ![k] = [looked EXCEPT !.st = "joining",
                                                          !.user = user]]
    /\ UNCHANGED <<chats, messages, voices, loc, groups, inbox, out, topic, http,
                   apiCalls, nframes, nreplays>>

\* MessageHistoryService.get_conversation_summary: total_messages.
total_messages(c) == Cardinality({i \in MsgIds : messages[i].chat = c})

\* The connection_established frame.  ChatConsumer puts the conversation
\* summary in it; DigitalTwinChatConsumer sends the chat id, the twin's name
\* and the twin's id only.
connection_established(kind, c) ==
    [BlankEv EXCEPT !.type = "connection_established", !.chat_id = c,
                    !.text = TwinName(c),
                    !.summary = IF kind = "chat" THEN << total_messages(c) >>
                                ELSE << >>]

\* connect, after the access check: group_add, accept, connection_established.
Join(k) ==
    /\ conn[k].st = "joining"
    /\ groups' = [groups EXCEPT ![conn[k].chat] = @ \cup {k}]
    /\ conn' = [conn EXCEPT ![k].st = "active"]
    /\ Send(k, connection_established(conn[k].kind, conn[k].chat))
    /\ UNCHANGED <<chats, messages, voices, loc, inbox, topic, http, apiCalls,
                   nframes, nreplays>>

\* A disconnect that leaves last_active as it is.
update_user_last_seen_skipped(k) == chats

\* update_user_last_seen: the chat row of self.chat_id gets a new last_active.
update_user_last_seen(k) ==
    IF conn[k].chat \in Chats THEN Touch(conn[k].chat, k) ELSE chats

\* disconnect: update_user_last_seen, then group_discard; the consumer and its
\* channel, with the events pending on it, go away.
Disconnect(k) ==
    /\ conn[k].st = "active"
    /\ conn[k].pc = "idle"
    /\ groups' = [groups EXCEPT ![conn[k].chat] = @ \ {k}]
    /\ chats' = update_user_last_seen(k)
    /\ conn' = [conn EXCEPT ![k] = [NewConn EXCEPT !.st = "closed",
                                                   !.cleanups = conn[k].cleanups + 1]]
    /\ inbox' = [inbox EXCEPT ![k] = <<>>]
    /\ UNCHANGED <<messages, voices, loc, out, topic, http, apiCalls,
                   nframes, nreplays>>

\* disconnect of a socket that connect closed without accepting it: the
\* server reports the closed handshake to the consumer.  chat_id and
\* chat_group_name are set on every socket that got as far as the access
\* check, so update_user_last_seen and group_discard run for it.
DisconnectRefused(k) ==
    /\ conn[k].st = "closed" /\ conn[k].tok # NoToken
    /\ conn[k].cleanups = 0
    /\ chats' = IF conn[k].chat # "" THEN update_user_last_seen(k) ELSE chats
    /\ groups' = IF conn[k].chat # ""
                 THEN [groups EXCEPT ![conn[k].chat] = @ \ {k}] ELSE groups
    /\ conn' = [conn EXCEPT ![k].cleanups = @ + 1]
    /\ UNCHANGED <<messages, voices, loc, inbox, out, topic, http, apiCalls,
                   nframes, nreplays>>

\* ------------------------------------------------------------ message rows
BogusId == 99                          \* an id that names no Message

\* The reply_to lookup of save_user_message / save_twin_message:
\* Message.objects.get(id=reply_to), whatever chat the row belongs to; an
\* unknown id is logged and the row is created without a reply reference.
ReplyRow(reply_to) ==
    IF reply_to # NoMsg /\ reply_to \in MsgIds THEN reply_to ELSE NoMsg

ChatOpen(c) == chats[c].user_has_access /\ chats[c].twin_is_active

\* A Message row.  Beside the columns it records the operation that made it:
\* "frame" and "by" (the inbound frame or request, and the socket or "rest"),
\* "asked" (the reply_to the operation carried), "open" (whether both access
\* flags of the chat were true when the row was saved) and "edits" (how often
\* its text was rewritten).
Row(chat, from_user, mtype, content, asked, voice, frame, by) ==
    [chat |-> chat, is_from_user |-> from_user, message_type |-> mtype,
     text_content |-> content, status |-> "sent", reply_to |-> ReplyRow(asked),
     voice_note |-> voice, frame |-> frame, by |-> by, asked |-> asked,
     open |-> ChatOpen(chat), edits |-> 0]

\* save_user_message: no look at the chat's access flags, no look at the chat
\* of the replied-to row.
save_user_message(chat, content, mtype, voice, reply_to, frame, by) ==
    Append(messages, Row(chat, TRUE, mtype, content, reply_to, voice, frame, by))

save_twin_message(chat, content, reply_to, frame, by) ==
    Append(messages, Row(chat, FALSE, "text", content, reply_to, NoVoice, frame, by))

ReplyInputs == {NoMsg, BogusId} \cup MsgIds

\* ------------------------------------------------------ response pipeline
\* What the completion endpoint can do with one request.
Outcomes == {"ok", "malformed", "status", "connerr", "timeout"}

\* OpenRouterService.generate_response: "raise" when the exception leaves the
\* call (the total timeout is asyncio.TimeoutError, not an aiohttp.ClientError),
\* "error" for the {'error': ...} dict, else the 200 body.
generate_response(o) ==
    CASE o = "ok" -> "choices"
      [] o = "malformed" -> "nochoices"
      [] o \in {"status", "connerr"} -> "error"
      [] OTHER -> "raise"

Greeting(name) == "Hello! I'm " \o name \o ". How can I help you today?"

\* ChatConsumer.generate_twin_response: the error test comes first, then the
\* first-message greeting, then the completion text.
generate_twin_response(data, is_first_message, twin_name) ==
    IF data = "error" THEN TechnicalDifficulties
    ELSE IF is_first_message THEN Greeting(twin_name)
    ELSE IF data = "choices" THEN CompletionText
    ELSE UnexpectedFormat

\* DigitalTwinChatConsumer.call_digital_twin_api: every failure is returned
\* as {'success': False}; there is no greeting and no fallback text.
call_digital_twin_api(o) == IF o \in {"ok", "malformed"} THEN "success" ELSE "failure"

\* The handler that catches an exception leaving the pipeline sends this.
HandlerError(origin) ==
    CASE origin = "text" -> "Server error processing your message"
      [] origin = "transcription" -> "Error processing voice message transcription"
      [] OTHER -> "Error processing voice message"

MessageEv(mid, from_user, text, reply_to, chat_id, voice, frame) ==
    [BlankEv EXCEPT !.type = "chat_message", !.id = mid, !.is_from_user = from_user,
                    !.text = text, !.reply_to = reply_to, !.chat_id = chat_id,
                    !.voice_id = voice, !.frame = frame]

\* A handler that publishes the user's message twice.
text_publishes_twice(k, mid, content, reply_to, frame) ==
    << MessageEv(mid, TRUE, content, reply_to, conn[k].chat, NoVoice, frame),
       MessageEv(mid, TRUE, content, reply_to, conn[k].chat, NoVoice, frame),
       TypingEv(TRUE, "twin") >>

\* handle_text_message: what it publishes before the twin is asked, in order.
\* The message event carries the frame's reply_to as received and the chat id.
text_publishes(k, mid, content, reply_to, frame) ==
    << MessageEv(mid, TRUE, content, reply_to, conn[k].chat, NoVoice, frame),
       TypingEv(TRUE, "twin") >>

\* A pipeline that publishes the reply before it turns the indicator off.
reply_publishes_message_first(mid, content, reply_to, frame) ==
    << MessageEv(mid, FALSE, content, reply_to, NoChatId, NoVoice, frame),
       TypingEv(FALSE, "twin") >>

\* process_twin_response, process_digital_twin_response, transcription_completed:
\* what is published once the reply text is known, in order.
reply_publishes(mid, content, reply_to, frame) ==
    << TypingEv(FALSE, "twin"),
       MessageEv(mid, FALSE, content, reply_to, NoChatId, NoVoice, frame) >>

\* voice_message_received, sent to the sender when a voice handler ends.
AckEv(k) ==
    [BlankEv EXCEPT !.type = "voice_message_received", !.id = loc[k].mid,
                    !.voice_id = loc[k].voice]

\* ------------------------------------------------------- context assembly
RecentLimit == 15                      \* get_recent_messages(self.chat_id, limit=15)
max_context_length == 15               \* OpenRouterService.max_context_length

\* The ids of the rows of chat c among "rows", oldest first.
ChatRows(rows, c) ==
    SelectSeq([i \in 1..Len(rows) |-> i], LAMBDA i : rows[i].chat = c)

\* A history read that takes the oldest rows of the chat.
get_oldest_messages(rows, c, limit) ==
    LET ids == ChatRows(rows, c)
    IN SubSeq(ids, 1, IF limit < Len(ids) THEN limit ELSE Len(ids))

\* MessageHistoryService.get_recent_messages: order_by('-created_at')[:limit],
\* reversed.
get_recent_messages(rows, c, limit) ==
    LET ids == ChatRows(rows, c)
    IN SubSeq(ids, IF limit < Len(ids) THEN Len(ids) - limit + 1 ELSE 1, Len(ids))

\* message_history[-limit:] (the whole list when limit is 0)
LastOf(seq, limit) ==
    IF limit = 0 \/ limit >= Len(seq) THEN seq
    ELSE SubSeq(seq, Len(seq) - limit + 1, Len(seq))

\* OpenRouterService.get_conversation_context: the system prompt, the
\* conversation summary, then one entry per Message handed in ("id" names
\* the row an entry was made from).
get_conversation_context(rows, message_history, limit) ==
    << [role |-> "system", content |-> "persona", id |-> NoMsg],
       [role |-> "system", content |-> "summary", id |-> NoMsg] >>
    \o [j \in 1..Len(LastOf(message_history, limit)) |->
          LET i == LastOf(message_history, limit)[j]
          IN [role |-> IF rows[i].is_from_user THEN "user" ELSE "assistant",
              content |-> rows[i].text_content, id |-> i]]

\* generate_twin_response: the messages of the completion request, read once
\* the user's Message is saved.  The dt consumer sends no history.
request_messages(kind, rows, c) ==
    IF kind = "chat"
    THEN get_conversation_context(rows, get_recent_messages(rows, c, RecentLimit),
                                  max_context_length)
    ELSE << >>

\* ------------------------------------------------------------ text frames
\* receive -> handle_text_message, up to the request to the twin.
RecvText(k, reply_to) ==
    /\ conn[k].st = "active" /\ conn[k].pc = "idle"
    /\ nframes < MaxFrames
    /\ nframes' = nframes + 1
    /\ messages' = save_user_message(conn[k].chat, UserText, "text", NoVoice,
                                     reply_to, nframes + 1, k)
    /\ GroupSend(conn[k].chat,
                 text_publishes(k, Len(messages) + 1, UserText, reply_to, nframes + 1))
    /\ loc' = [loc EXCEPT ![k] =
                 [BlankLoc EXCEPT !.frame = nframes + 1, !.content = UserText,
                                  !.is_first = ~ChatHasMessages(conn[k].chat),
                                  !.reply_to = reply_to,
                                  !.mid = Len(messages) + 1,
                                  !.origin = "text",
                                  !.context =
                                      request_messages(conn[k].kind, messages',
                                                       conn[k].chat)]]
    /\ conn' = [conn EXCEPT ![k].pc = "call"]
    /\ chats' = Touch(conn[k].chat, "save")
    /\ UNCHANGED <<voices, groups, out, http, apiCalls, nreplays>>

\* save_user_message statement by statement, as two consumers of one chat in
\* different server processes run it: the chat's last_active is saved and
\* Message.objects.filter(chat=chat).exists() is evaluated ...
BeginText(k, reply_to) ==
    /\ conn[k].st = "active" /\ conn[k].pc = "idle"
    /\ conn[k].sent < MaxSent
    /\ nframes' = nframes + 1
    /\ chats' = Touch(conn[k].chat, "save")
    /\ loc' = [loc EXCEPT ![k] =
                 [BlankLoc EXCEPT !.frame = nframes + 1, !.content = UserText,
                                  !.is_first = ~ChatHasMessages(conn[k].chat),
                                  !.reply_to = reply_to, !.origin = "text"]]
    /\ conn' = [conn EXCEPT ![k].pc = "save", ![k].sent = @ + 1]
    /\ UNCHANGED <<messages, voices, groups, inbox, out, topic, http, apiCalls,
                   nreplays>>

\* ... and then Message.objects.create runs, and handle_text_message goes on
\* to the broadcast and to the request to the twin.
SaveText(k) ==
    /\ conn[k].pc = "save"
    /\ messages' = save_user_message(conn[k].chat, UserText, "text", NoVoice,
                                     loc[k].reply_to, loc[k].frame, k)
    /\ GroupSend(conn[k].chat,
                 text_publishes(k, Len(messages) + 1, UserText, loc[k].reply_to,
                                loc[k].frame))
    /\ loc' = [loc EXCEPT ![k].mid = Len(messages) + 1,
                          ![k].context = request_messages(conn[k].kind, messages',
                                                          conn[k].chat)]
    /\ conn' = [conn EXCEPT ![k].pc = "call"]
    /\ UNCHANGED <<chats, voices, groups, out, http, apiCalls, nframes, nreplays>>

\* ChatConsumer, from the completion request to the end of the handler:
\* generate_response, generate_twin_response, typing off, save_twin_message,
\* the reply's broadcast.  The request is made whether or not this is the
\* chat's first message.  An exception leaves through the calling handler.
CallCompletion(k, o) ==
    /\ conn[k].pc = "call" /\ conn[k].kind = "chat"
    /\ apiCalls' = apiCalls \cup {loc[k].frame}
    /\ IF generate_response(o) = "raise"
       THEN /\ Send(k, ErrorEv(HandlerError(loc[k].origin), ""))
            /\ UNCHANGED <<messages, inbox, topic>>
       ELSE LET content == generate_twin_response(generate_response(o),
                                                  loc[k].is_first,
                                                  TwinName(conn[k].chat))
            IN /\ messages' = save_twin_message(conn[k].chat, content,
                                                loc[k].reply_to, loc[k].frame, k)
               /\ GroupSend(conn[k].chat,
                            reply_publishes(Len(messages) + 1, content,
                                            loc[k].reply_to, loc[k].frame))
               /\ UNCHANGED out
    /\ conn' = [conn EXCEPT ![k].pc = "idle"]
    /\ loc' = [loc EXCEPT ![k] = BlankLoc]
    /\ UNCHANGED <<chats, voices, groups, http, nframes, nreplays>>

\* DigitalTwinChatConsumer, from the API request to the end of the handler:
\* typing off, then the saved and broadcast reply or an error frame to the
\* sender; a voice handler then acknowledges the frame.
CallTwinApi(k, o) ==
    /\ conn[k].pc = "call" /\ conn[k].kind = "dt"
    /\ apiCalls' = apiCalls \cup {loc[k].frame}
    /\ IF call_digital_twin_api(o) = "success"
       THEN /\ messages' = save_twin_message(conn[k].chat, CompletionText,
                                             loc[k].reply_to, loc[k].frame, k)
            /\ GroupSend(conn[k].chat,
                         reply_publishes(Len(messages) + 1, CompletionText,
                                         loc[k].reply_to, loc[k].frame))
            /\ out' = [out EXCEPT ![k] =
                         IF loc[k].origin = "voice" THEN Append(@, AckEv(k)) ELSE @]
       ELSE /\ GroupSend(conn[k].chat, <<TypingEv(FALSE, "twin")>>)
            /\ out' = [out EXCEPT ![k] =
                         IF loc[k].origin = "voice"
                         THEN @ \o <<ErrorEv("Twin API Error", ""), AckEv(k)>>
                         ELSE Append(@, ErrorEv("Twin API Error", ""))]
            /\ UNCHANGED messages
    /\ conn' = [conn EXCEPT ![k].pc = "idle"]
    /\ loc' = [loc EXCEPT ![k] = BlankLoc]
    /\ UNCHANGED <<chats, voices, groups, http, nframes, nreplays>>

\* ------------------------------------------------- voice upload and worker
\* How one transcription job can go: the configuration, the stored file and
\* the three calls to the speech service.
JobOutcomes == {"nokey", "missing", "zero", "unreadable", "small", "toolarge",
                "badformat", "upload_fail", "submit_fail", "poll_error",
                "poll_http", "poll_timeout", "poll_exc", "no_text", "raised",
                "ok"}

TranscriptText == "turn on the lights"

\* SpeechToTextService.transcribe_voice: the string it returns.
transcribe_voice(o) ==
    CASE o = "unreadable" -> "Could not access voice recording file."
      [] o = "small" -> "Voice recording file is too small to be processed (minimum 1KB required)."
      [] o = "toolarge" -> "Voice recording file exceeds maximum size limit of 25MB."
      [] o = "badformat" -> "Invalid audio file format. Please use a supported audio format."
      [] o = "upload_fail" -> "Failed to upload audio file for transcription."
      [] o = "submit_fail" -> "Failed to initialize transcription."
      [] o = "poll_error" -> "Transcription error: Unknown error"
      [] o = "poll_http" -> "Transcription service error."
      [] o = "poll_timeout" -> "Transcription timed out."
      [] o = "poll_exc" -> "Error checking transcription status."
      [] o = "no_text" -> "No speech detected."
      [] o = "raised" -> "Sorry, I couldn't transcribe your voice message."
      [] OTHER -> TranscriptText

\* The requests transcribe_voice makes to the speech service before it
\* returns: none when the key or the file is missing or the content fails
\* the size and signature tests.
speech_requests(o) ==
    CASE o \in {"nokey", "missing", "zero", "unreadable", "small", "toolarge",
                "badformat"} -> {}
      [] o = "upload_fail" -> {"upload"}
      [] o = "submit_fail" -> {"upload", "submit"}
      [] OTHER -> {"upload", "submit", "poll"}

\* str.startswith on the strings above.
StartsWithTranscriptionError(t) == t = "Transcription error: Unknown error"
StartsWithNoSpeechDetected(t) == t = "No speech detected."
StartsWithServiceNot(t) == t = "Speech transcription service not properly configured."

\* _run_transcription: the texts it treats as a failed job.
IsFailureText(t) ==
    \/ StartsWithTranscriptionError(t)
    \/ StartsWithServiceNot(t)
    \/ t \in {"Failed to upload audio file for transcription.",
              "Sorry, I couldn't transcribe your voice message."}

\* _run_transcription: [failed, text] stored on the recording.
run_transcription(o) ==
    CASE o = "nokey" -> [failed |-> TRUE, text |-> "Transcription service not configured."]
      [] o = "missing" -> [failed |-> TRUE, text |-> "Audio file not found."]
      [] o = "zero" -> [failed |-> TRUE, text |-> "Empty audio file."]
      [] OTHER -> [failed |-> IsFailureText(transcribe_voice(o)),
                   text |-> transcribe_voice(o)]

\* _notify_twin_of_transcription: the test that lets a transcript through.
notify_allows(rec) ==
    ~(\/ ~rec.is_processed
      \/ rec.transcription = ""
      \/ StartsWithTranscriptionError(rec.transcription)
      \/ StartsWithNoSpeechDetected(rec.transcription))

\* Message.objects.filter(voice_note_id=v).first()
VoiceMessage(v) ==
    IF \E i \in MsgIds : messages[i].voice_note = v
    THEN CHOOSE i \in MsgIds : /\ messages[i].voice_note = v
                               /\ \A j \in MsgIds : messages[j].voice_note = v => i <= j
    ELSE NoMsg

\* VoiceRecordingViewSet.create by user u: the row is saved, the worker
\* thread started.  chat_id is whatever the request carries; the row does not
\* say who uploaded it, "by" keeps that for the properties.
UploadVoice(u, v, chat_param) ==
    /\ ~voices[v].exists
    /\ voices' = [voices EXCEPT ![v] = [@ EXCEPT !.exists = TRUE, !.job = "running",
                                                 !.chat_param = chat_param,
                                                 !.by = u]]
    /\ UNCHANGED <<chats, messages, conn, loc, groups, inbox, out, topic, http,
                   apiCalls, nframes, nreplays>>

\* _notify_twin_of_transcription: the topic it publishes to.
notify_chat(v) ==
    IF voices[v].chat_param # NoChatId THEN voices[v].chat_param
    ELSE IF VoiceMessage(v) # NoMsg THEN messages[VoiceMessage(v)].chat
    ELSE NoChatId

\* A worker that leaves the job as it found it.
job_after_unfinished(failed) == "running"

\* The state the worker leaves the job in: _update_transcription_failure, or
\* the save of the transcript.  Both set is_processed.
job_after(failed) == IF failed THEN "failed" ELSE "completed"

\* The worker thread: _run_transcription, which ends either in
\* _update_transcription_failure or in the save of the transcript followed by
\* _notify_twin_of_transcription.
RunTranscription(v, o) ==
    /\ voices[v].job = "running"
    /\ LET r == run_transcription(o)
           rec == [voices[v] EXCEPT !.is_processed = TRUE, !.transcription = r.text,
                                    !.result = o,
                                    !.contacted = speech_requests(o),
                                    !.job = job_after(r.failed)]
       IN /\ voices' = [voices EXCEPT ![v] = rec]
          /\ IF ~r.failed /\ notify_allows(rec) /\ notify_chat(v) \in ChatIds
             THEN GroupSend(notify_chat(v),
                            << [BlankEv EXCEPT !.type = "transcription_completed",
                                               !.voice_id = v, !.text = r.text,
                                               !.chat_id = notify_chat(v),
                                               !.nid = 1, !.src = "worker"] >>)
             ELSE UNCHANGED <<inbox, topic>>
    /\ UNCHANGED <<chats, messages, conn, loc, groups, out, http, apiCalls, nframes,
                   nreplays>>

\* ------------------------------------------------- the speech service
max_retries == 3                       \* _upload_file_with_retry(max_retries=3)
max_attempts == 100                    \* _poll_for_completion: max_attempts

\* What the upload endpoint can answer; "200_nourl" is a 200 whose body has
\* no upload_url, "timeout" the 60 s client timeout.
UploadResponses == {"200", "200_nourl", "401", "429", "500", "timeout"}

\* The Retry-After header of a 429: absent, delay-seconds, or an HTTP-date.
Hints == {"absent", "7", "Wed, 21 Oct 2026 07:28:00 GMT"}

\* int(response.headers.get('Retry-After', 5)): the seconds slept, or nothing
\* when int() raises and the attempt ends in the except branch.
retry_after_sleep(hint) ==
    CASE hint = "absent" -> << 5 >>
      [] hint = "7" -> << 7 >>
      [] OTHER -> << >>

\* The worker is inside transcribe_voice at this stage.
AtStage(v, stage) ==
    /\ voices[v].exists /\ voices[v].job = "running"
    /\ voices[v].svc.stage = stage

\* transcribe_voice returns: the worker goes on to store the result.
Returned(svc, o) == [svc EXCEPT !.stage = "done", !.outcome = o]

\* One pass of the loop of _upload_file_with_retry.
upload_attempt(svc, resp, hint) ==
    LET before == IF svc.retries > 0 THEN 2 ELSE 0
        after == IF resp = "429" THEN retry_after_sleep(hint) ELSE << >>
        made == [svc EXCEPT !.attempts =
                    Append(@, [resp |-> resp, hint |-> hint, before |-> before,
                               after |-> after])]
        again == [made EXCEPT !.retries = @ + 1]
    IN CASE resp = "200" -> [made EXCEPT !.stage = "submit"]
         [] resp \in {"200_nourl", "401"} -> Returned(made, "upload_fail")
         [] OTHER -> IF again.retries < max_retries THEN again
                     ELSE Returned(again, "upload_fail")

UploadRequest(v, resp, hint) ==
    /\ AtStage(v, "upload")
    /\ voices' = [voices EXCEPT ![v].svc = upload_attempt(@, resp, hint)]
    /\ UNCHANGED <<chats, messages, conn, loc, groups, inbox, out, topic, http,
                   apiCalls, nframes, nreplays>>

\* _submit_transcription: the transcript id, or None.
SubmitRequest(v, accepted) ==
    /\ AtStage(v, "submit")
    /\ voices' = [voices EXCEPT ![v].svc =
                     IF accepted THEN [@ EXCEPT !.submits = @ + 1, !.stage = "poll"]
                     ELSE Returned([@ EXCEPT !.submits = @ + 1], "submit_fail")]
    /\ UNCHANGED <<chats, messages, conn, loc, groups, inbox, out, topic, http,
                   apiCalls, nframes, nreplays>>

\* What a status query can bring: a 200 with status queued or processing,
\* completed with a text, with "" or with null, or error; another status
\* code; a failed request.
PollResponses == {"processing", "completed", "completed_empty", "completed_null",
                  "error", "http_error", "exception"}

\* One pass of the loop of _poll_for_completion.  len() of a null text raises
\* into the except branch of the function.
poll_attempt(svc, resp) ==
    LET made == [svc EXCEPT !.polls = @ + 1, !.last = resp]
        waited == [made EXCEPT !.waits = @ + 1]
    IN CASE resp = "processing" ->
              IF waited.waits < max_attempts THEN waited
              ELSE Returned(waited, "poll_timeout")
         [] resp = "completed" -> Returned(made, "ok")
         [] resp = "completed_empty" -> Returned(made, "no_text")
         [] resp = "error" -> Returned(made, "poll_error")
         [] resp = "http_error" -> Returned(made, "poll_http")
         [] OTHER -> Returned(made, "poll_exc")

PollRequest(v, resp) ==
    /\ AtStage(v, "poll")
    /\ voices' = [voices EXCEPT ![v].svc = poll_attempt(@, resp)]
    /\ UNCHANGED <<chats, messages, conn, loc, groups, inbox, out, topic, http,
                   apiCalls, nframes, nreplays>>

\* _run_transcription once transcribe_voice has returned.
StoreResult(v) ==
    /\ AtStage(v, "done")
    /\ RunTranscription(v, voices[v].svc.outcome)

\* ------------------------------------------------------------ voice frames
VoiceInputs == VoiceIds \cup {"v9"}    \* "v9": no such recording

\* handle_voice_message: what it publishes after saving the voice Message.
\* ChatConsumer shows the twin typing while the recording is unprocessed; the
\* dt consumer goes on to answer whatever text the recording holds.
voice_publishes(k, mid, v, reply_to, frame) ==
    << MessageEv(mid, TRUE, voices[v].transcription, reply_to, NoChatId, v, frame) >>
    \o (IF \/ conn[k].kind = "chat" /\ ~voices[v].is_processed
           \/ conn[k].kind = "dt" /\ voices[v].transcription # ""
        THEN << TypingEv(TRUE, "twin") >> ELSE << >>)

\* receive -> handle_voice_message, to its end or to the request to the twin.
RecvVoice(k, v, reply_to) ==
    /\ conn[k].st = "active" /\ conn[k].pc = "idle"
    /\ nframes < MaxFrames
    /\ nframes' = nframes + 1
    /\ IF v \in VoiceIds /\ voices[v].exists
       THEN /\ messages' = save_user_message(conn[k].chat, "", "voice", v, reply_to,
                                             nframes + 1, k)
            /\ chats' = Touch(conn[k].chat, "save")
            /\ GroupSend(conn[k].chat,
                         voice_publishes(k, Len(messages) + 1, v, reply_to, nframes + 1))
            /\ IF conn[k].kind = "dt" /\ voices[v].transcription # ""
               THEN /\ loc' = [loc EXCEPT ![k] =
                                 [BlankLoc EXCEPT !.frame = nframes + 1,
                                                  !.content = voices[v].transcription,
                                                  !.reply_to = reply_to,
                                                  !.mid = Len(messages) + 1,
                                                  !.voice = v, !.origin = "voice"]]
                    /\ conn' = [conn EXCEPT ![k].pc = "call"]
                    /\ UNCHANGED out
               ELSE /\ Send(k, [BlankEv EXCEPT !.type = "voice_message_received",
                                               !.id = Len(messages) + 1,
                                               !.voice_id = v])
                    /\ UNCHANGED <<loc, conn>>
       ELSE /\ Send(k, ErrorEv("Voice recording not found", "voice_note_not_found"))
            /\ UNCHANGED <<chats, messages, loc, conn, inbox, topic>>
    /\ UNCHANGED <<voices, groups, http, apiCalls, nreplays>>

\* ------------------------------------------------------- unroutable frames
\* Text frames that receive cannot route: the empty frame, text that is not
\* JSON, JSON that is not an object, an object with an unknown type or with
\* no type at all.
BadFrames == {[body |-> "empty", type |-> ""],
              [body |-> "invalid", type |-> ""],
              [body |-> "array", type |-> ""],
              [body |-> "object", type |-> "bogus"],
              [body |-> "object", type |-> "None"]}

\* receive: the frames it sends back for such a frame.  `if not text_data:
\* return` comes before the JSON is parsed, so the empty frame gets nothing.
receive_error(f) ==
    CASE f.body = "empty" -> << >>
      [] f.body = "invalid" ->
           << ErrorEv("Invalid message format - must be valid JSON", "") >>
      [] f.body = "array" -> << ErrorEv("Message must be a JSON object", "") >>
      [] OTHER -> << ErrorEv("Unknown message type: " \o f.type, "") >>

\* receive, for a frame it cannot route.
RecvBad(k, f) ==
    /\ conn[k].st = "active" /\ conn[k].pc = "idle"
    /\ conn[k].bad < MaxBadFrames
    /\ conn' = [conn EXCEPT ![k].bad = @ + 1]
    /\ out' = [out EXCEPT ![k] = @ \o receive_error(f)]
    /\ UNCHANGED <<chats, messages, voices, loc, groups, inbox, topic, http,
                   apiCalls, nframes, nreplays>>

\* ------------------------------------------- frames that name nothing
\* voice and file frames without an id, or with an id of no row.
UnusableFrames == [type : {"voice", "file"}, id : {"", "x9"}]

\* receive, handle_voice_message, handle_file_message: the error frame such a
\* frame is answered with.  The dt consumer has no branch for file frames.
receive_reject(kind, f) ==
    CASE f.type = "voice" /\ f.id = "" ->
           ErrorEv("Voice ID is required for voice messages", "")
      [] f.type = "voice" ->
           ErrorEv("Voice recording not found", "voice_note_not_found")
      [] kind = "dt" -> ErrorEv("Unknown message type: file", "")
      [] f.id = "" -> ErrorEv("File ID is required for file messages", "")
      [] OTHER -> ErrorEv("File not found", "file_not_found")

\* An error frame that goes to every socket of the chat.
reject_recipients_all(k) == groups[conn[k].chat]

\* self.send: the socket the frame came in on.
reject_recipients(k) == {k}

\* receive for such a frame; the error frame is tagged with the frame's number.
RecvUnusable(k, f) ==
    /\ conn[k].st = "active" /\ conn[k].pc = "idle"
    /\ nframes < MaxFrames
    /\ nframes' = nframes + 1
    /\ out' = [j \in Conns |->
                 IF j \in reject_recipients(k)
                 THEN Append(out[j], [receive_reject(conn[k].kind, f)
                                        EXCEPT !.frame = nframes + 1])
                 ELSE out[j]]
    /\ UNCHANGED <<chats, messages, voices, conn, loc, groups, inbox, topic, http,
                   apiCalls, nreplays>>

\* -------------------------------------------------------- typing frames
\* An indicator that is published as "not typing" whatever the frame says.
typing_indicator_event_off(k, is_typing) == TypingEv(FALSE, conn[k].user)

\* handle_typing_indicator: the event it publishes, with the frame's
\* is_typing and str(self.user.id).
typing_indicator_event(k, is_typing) == TypingEv(is_typing, conn[k].user)

\* receive -> handle_typing_indicator: one group_send, nothing saved.
RecvTyping(k, is_typing) ==
    /\ conn[k].st = "active" /\ conn[k].pc = "idle"
    /\ conn[k].ctl < MaxControl
    /\ conn' = [conn EXCEPT ![k].ctl = @ + 1, ![k].typed = Append(@, is_typing)]
    /\ GroupSend(conn[k].chat, << typing_indicator_event(k, is_typing) >>)
    /\ UNCHANGED <<chats, messages, voices, loc, groups, out, http, apiCalls,
                   nframes, nreplays>>

\* ------------------------------------------------------------ read receipts
\* mark_messages_as_read: Message.objects.filter(id__in=ids).update(status='read')
mark_messages_as_read(message_ids) ==
    [i \in DOMAIN messages |->
        IF i \in message_ids THEN [messages[i] EXCEPT !.status = "read"]
        ELSE messages[i]]

ReadReceiptEv(message_ids, who) ==
    [BlankEv EXCEPT !.type = "read_receipt_update", !.ids = message_ids,
                    !.user_id = who]

\* receive -> handle_read_receipt: an empty id list does nothing.
RecvReadReceipt(k, message_ids) ==
    /\ conn[k].st = "active" /\ conn[k].pc = "idle"
    /\ conn[k].ctl < MaxControl
    /\ conn' = [conn EXCEPT ![k].ctl = @ + 1]
    /\ IF message_ids # {}
       THEN /\ messages' = mark_messages_as_read(message_ids)
            /\ GroupSend(conn[k].chat, << ReadReceiptEv(message_ids, conn[k].user) >>)
       ELSE UNCHANGED <<messages, inbox, topic>>
    /\ UNCHANGED <<chats, voices, loc, groups, out, http, apiCalls, nframes,
                   nreplays>>

\* ------------------------------------------------------- event dispatch
TransFrame(nid) == 100 + nid           \* tag of the pipeline run a notification starts

\* The consumer's handler for the event type, run on one event; "queues" is
\* the channels' content once the event is taken.
Dispatch(k, ev, queues) ==
    CASE ev.type = "chat_message" ->
           \* chat_message: forwarded unless it names another chat
           /\ IF ev.chat_id # NoChatId /\ ev.chat_id # conn[k].chat
              THEN UNCHANGED out
              ELSE Send(k, [ev EXCEPT !.type = "message"])
           /\ inbox' = queues
           /\ UNCHANGED <<messages, conn, loc, topic>>
      [] ev.type = "transcription_completed" ->
           \* transcription_completed, up to the request to the twin: neither
           \* consumer looks at the event's chat_id or notification_id
           /\ Send(k, [ev EXCEPT !.chat_id = NoChatId, !.nid = 0])
           /\ IF conn[k].kind = "chat" /\ VoiceMessage(ev.voice_id) = NoMsg
              THEN /\ inbox' = queues
                   /\ UNCHANGED <<messages, conn, loc, topic>>
              ELSE /\ messages' =
                        IF conn[k].kind = "chat"
                        THEN [messages EXCEPT ![VoiceMessage(ev.voice_id)] =
                                [@ EXCEPT !.text_content = ev.text,
                                          !.edits = @ + 1]]
                        ELSE messages
                   /\ GroupSendFrom(queues, conn[k].chat, <<TypingEv(TRUE, "twin")>>)
                   /\ conn' = [conn EXCEPT ![k].pc = "call"]
                   /\ loc' = [loc EXCEPT ![k] =
                                [BlankLoc EXCEPT !.frame = TransFrame(ev.nid),
                                                 !.content = ev.text,
                                                 !.voice = ev.voice_id,
                                                 !.origin = "transcription"]]
      [] ev.type = "read_receipt_update" ->
           \* read_receipt_update: forwarded as a read_receipt frame
           /\ Send(k, [ev EXCEPT !.type = "read_receipt"])
           /\ inbox' = queues
           /\ UNCHANGED <<messages, conn, loc, topic>>
      [] OTHER ->
           \* typing_indicator: forwarded as it is
           /\ Send(k, ev)
           /\ inbox' = queues
           /\ UNCHANGED <<messages, conn, loc, topic>>

\* The events a consumer has a handler for, as any publisher on the channel
\* layer can send them: of each type, for a recording, naming a chat or none.
BusEvents ==
    {[BlankEv EXCEPT !.type = t, !.chat_id = c, !.voice_id = "v1",
                     !.text = TranscriptText, !.user_id = "u2", !.nid = 1,
                     !.src = "bus"] :
        t \in {"chat_message", "typing_indicator", "read_receipt_update",
               "transcription_completed"},
        c \in Chats \cup {NoChatId}}

\* An event arrives on the consumer's channel.
BusEvent(k, ev) ==
    /\ conn[k].st = "active"
    /\ conn[k].fed < MaxBusEvents
    /\ conn' = [conn EXCEPT ![k].fed = @ + 1]
    /\ inbox' = [inbox EXCEPT ![k] = Append(@, ev)]
    /\ UNCHANGED <<chats, messages, voices, loc, groups, out, topic, http,
                   apiCalls, nframes, nreplays>>

\* The consumer takes the next event of its channel.
Deliver(k) ==
    /\ conn[k].st = "active" /\ conn[k].pc = "idle"
    /\ inbox[k] # <<>>
    /\ Dispatch(k, Head(inbox[k]), [inbox EXCEPT ![k] = Tail(@)])
    /\ UNCHANGED <<chats, voices, groups, http, apiCalls, nframes, nreplays>>

\* At-least-once delivery: the channel layer hands the consumer a
\* transcription_completed event and keeps it queued, so that the same
\* notification reaches the handler a second time.
Redeliver(k) ==
    /\ conn[k].st = "active" /\ conn[k].pc = "idle"
    /\ inbox[k] # <<>>
    /\ Head(inbox[k]).type = "transcription_completed"
    /\ nreplays < MaxReplays
    /\ nreplays' = nreplays + 1
    /\ Dispatch(k, Head(inbox[k]), inbox)
    /\ UNCHANGED <<chats, voices, groups, http, apiCalls, nframes>>

\* ------------------------------------------------------------------ REST
\* MessageSerializer.validate_reply_to compares the row's chat_id, a UUID,
\* with request.data['chat'], a str.
validate_reply_to_fails(row_chat, chat_id) == <<"uuid", row_chat>> # <<"str", chat_id>>

\* MessageViewSet.perform_create: str() of both sides.
perform_create_refuses(reply_to, chat_id) ==
    reply_to # NoMsg /\ (reply_to \notin MsgIds \/ messages[reply_to].chat # chat_id)

\* MessageViewSet.create for a text message: the status it answers with.
create_status(u, chat_id, reply_to) ==
    IF chat_id \notin Chats \/ ChatOwner(chat_id) # u THEN 404
    ELSE IF reply_to # NoMsg /\ reply_to \notin MsgIds THEN 500
    ELSE IF reply_to # NoMsg /\ validate_reply_to_fails(messages[reply_to].chat, chat_id)
    THEN 500
    ELSE IF perform_create_refuses(reply_to, chat_id) THEN 500
    ELSE 201

RestFrame(n) == 200 + n                \* tag of the n-th REST request

\* MessageViewSet.create -> perform_create -> _notify_websocket_message.
RestCreate(u, chat_id, reply_to, from_user) ==
    /\ Len(http) < MaxRequests
    /\ http' = Append(http, create_status(u, chat_id, reply_to))
    /\ IF create_status(u, chat_id, reply_to) = 201
       THEN /\ messages' = Append(messages,
                                  Row(chat_id, from_user, "text", UserText, reply_to,
                                      NoVoice, RestFrame(Len(http) + 1), "rest"))
            /\ GroupSend(chat_id,
                         << [BlankEv EXCEPT !.type = "chat_message",
                                            !.id = Len(messages) + 1,
                                            !.is_from_user = from_user,
                                            !.text = UserText, !.reply_to = reply_to,
                                            !.frame = RestFrame(Len(http) + 1),
                                            !.src = "rest"] >>)
            /\ chats' = Touch(chat_id, "save")
       ELSE UNCHANGED <<chats, messages, inbox, topic>>
    /\ UNCHANGED <<voices, conn, loc, groups, out, apiCalls, nframes, nreplays>>

MessageStatuses == {"sent", "delivered", "read"}

\* MessageViewSet.partial_update (the ModelViewSet default): the serializer
\* takes "status" from the request for any Message of the caller's chats.
update_status(u, mid) ==
    IF mid \in MsgIds /\ ChatOwner(messages[mid].chat) = u THEN 200 ELSE 404

RestUpdate(u, mid, st) ==
    /\ Len(http) < MaxRequests
    /\ http' = Append(http, update_status(u, mid))
    /\ messages' = IF update_status(u, mid) = 200
                   THEN [messages EXCEPT ![mid].status = st]
                   ELSE messages
    /\ UNCHANGED <<chats, voices, conn, loc, groups, inbox, out, topic, apiCalls,
                   nframes, nreplays>>

\* UserTwinChatViewSet.block_contact
BlockContact(c) ==
    /\ chats[c].user_has_access
    /\ chats' = [chats EXCEPT ![c].user_has_access = FALSE]
    /\ UNCHANGED <<messages, voices, conn, loc, groups, inbox, out, topic, http,
                   apiCalls, nframes, nreplays>>

\* ------------------------------------------------------------------- Next
Next ==
    \/ \E k \in Conns, kind \in Kinds, tok \in Tokens, c \in ChatIds :
         Connect(k, kind, tok, c)
    \/ \E k \in Conns : Join(k)
    \/ \E k \in Conns : Disconnect(k)
    \/ \E k \in Conns, r \in ReplyInputs : RecvText(k, r)
    \/ \E k \in Conns, o \in Outcomes : CallCompletion(k, o)
    \/ \E k \in Conns, o \in Outcomes : CallTwinApi(k, o)
    \/ \E k \in Conns, v \in VoiceInputs, r \in ReplyInputs : RecvVoice(k, v, r)
    \/ \E u \in Users, v \in VoiceIds, c \in ChatIds \cup {NoChatId} :
         UploadVoice(u, v, c)
    \/ \E v \in VoiceIds, o \in JobOutcomes : RunTranscription(v, o)
    \/ \E k \in Conns : Deliver(k)
    \/ \E k \in Conns : Redeliver(k)
    \/ \E u \in Users, c \in ChatIds, r \in ReplyInputs, b \in BOOLEAN :
         RestCreate(u, c, r, b)
    \/ \E c \in Chats : BlockContact(c)
    \/ \E k \in Conns, f \in BadFrames : RecvBad(k, f)
    \/ \E k \in Conns, ids \in SUBSET (MsgIds \cup {BogusId}) :
         RecvReadReceipt(k, ids)
    \/ \E u \in Users, i \in MsgIds \cup {BogusId}, st \in MessageStatuses :
         RestUpdate(u, i, st)
    \/ \E k \in Conns, b \in BOOLEAN : RecvTyping(k, b)
    \/ \E k \in Conns, ev \in BusEvents : BusEvent(k, ev)
    \/ \E k \in Conns, f \in UnusableFrames : RecvUnusable(k, f)

Spec == Init /\ [][Next]_vars

\* Admission and lifecycle only.
NextGate ==
    \/ \E k \in Conns, kind \in Kinds, tok \in Tokens, c \in ChatIds :
         Connect(k, kind, tok, c)
    \/ \E k \in Conns : Join(k)
    \/ \E k \in Conns : Disconnect(k)
    \/ \E c \in Chats : BlockContact(c)

SpecGate == Init /\ [][NextGate]_vars

OwnerToken(c) == [kind |-> "valid", user_id |-> ChatOwner(c)]

InitOpen == Init /\ \A c \in Chats : chats[c].user_has_access /\ chats[c].twin_is_active

\* Text conversations of admitted owners: one socket on chat c1, the other
\* on either chat.
NextText ==
    \/ \E kind \in Kinds : Connect("k1", kind, OwnerToken("c1"), "c1")
    \/ \E kind \in Kinds, c \in Chats : Connect("k2", kind, OwnerToken(c), c)
    \/ \E k \in Conns : Join(k)
    \/ \E k \in Conns : Disconnect(k)
    \/ \E k \in Conns, r \in {NoMsg} \cup MsgIds : RecvText(k, r)
    \/ \E k \in Conns, o \in Outcomes : CallCompletion(k, o)
    \/ \E k \in Conns, o \in Outcomes : CallTwinApi(k, o)
    \/ \E k \in Conns : Deliver(k)

SpecText == InitOpen /\ [][NextText]_vars

\* Every way a Message is created, with the owner blocking the chat.
NextCreate ==
    \/ \E kind \in Kinds, c \in Chats : Connect("k1", kind, OwnerToken(c), c)
    \/ \E k \in Conns : Join(k)
    \/ \E k \in Conns, r \in ReplyInputs : RecvText(k, r)
    \/ \E k \in Conns, o \in Outcomes : CallCompletion(k, o)
    \/ \E k \in Conns, o \in Outcomes : CallTwinApi(k, o)
    \/ \E k \in Conns : Deliver(k)
    \/ \E u \in Users, c \in ChatIds, r \in ReplyInputs, b \in BOOLEAN :
         RestCreate(u, c, r, b)
    \/ \E c \in Chats : BlockContact(c)

SpecCreate == InitOpen /\ [][NextCreate]_vars

\* Voice messages: the upload, its worker, the voice frame and the
\* notification, on one chat.
NextVoice ==
    \/ \E kind \in Kinds : Connect("k1", kind, OwnerToken("c1"), "c1")
    \/ \E k \in Conns : Join(k)
    \/ \E k \in Conns, v \in VoiceInputs : RecvVoice(k, v, NoMsg)
    \/ \E v \in VoiceIds, c \in {"c1", NoChatId} : UploadVoice("u1", v, c)
    \/ \E v \in VoiceIds, o \in JobOutcomes : RunTranscription(v, o)
    \/ \E k \in Conns, o \in Outcomes : CallCompletion(k, o)
    \/ \E k \in Conns, o \in Outcomes : CallTwinApi(k, o)
    \/ \E k \in Conns : Deliver(k)
    \/ \E k \in Conns : Redeliver(k)

SpecVoice == InitOpen /\ [][NextVoice]_vars

\* Unroutable frames among text frames, on one socket.
NextProtocol ==
    \/ \E kind \in Kinds : Connect("k1", kind, OwnerToken("c1"), "c1")
    \/ \E k \in Conns : Join(k)
    \/ \E k \in Conns, f \in BadFrames : RecvBad(k, f)
    \/ \E k \in Conns : RecvText(k, NoMsg)
    \/ \E k \in Conns, o \in Outcomes : CallCompletion(k, o)
    \/ \E k \in Conns, o \in Outcomes : CallTwinApi(k, o)
    \/ \E k \in Conns : Deliver(k)

SpecProtocol == InitOpen /\ [][NextProtocol]_vars

\* Read receipts for the Messages of a text conversation, and the REST
\* update of a Message.
NextRead ==
    \/ \E kind \in Kinds : Connect("k1", kind, OwnerToken("c1"), "c1")
    \/ \E k \in Conns : Join(k)
    \/ \E k \in Conns : RecvText(k, NoMsg)
    \/ \E k \in Conns, o \in Outcomes : CallCompletion(k, o)
    \/ \E k \in Conns, o \in Outcomes : CallTwinApi(k, o)
    \/ \E k \in Conns : Deliver(k)
    \/ \E k \in Conns, ids \in SUBSET (MsgIds \cup {BogusId}) :
         RecvReadReceipt(k, ids)
    \/ \E u \in Users, i \in MsgIds \cup {BogusId}, st \in MessageStatuses :
         RestUpdate(u, i, st)

SpecRead == InitOpen /\ [][NextRead]_vars

\* Typing indicators between two sockets of one chat or of two chats.
NextTyping ==
    \/ \E kind \in Kinds : Connect("k1", kind, OwnerToken("c1"), "c1")
    \/ \E kind \in Kinds, c \in Chats : Connect("k2", kind, OwnerToken(c), c)
    \/ \E k \in Conns : Join(k)
    \/ \E k \in Conns : Disconnect(k)
    \/ \E k \in Conns, b \in BOOLEAN : RecvTyping(k, b)
    \/ \E k \in Conns : Deliver(k)

SpecTyping == InitOpen /\ [][NextTyping]_vars

\* The event handlers of one socket, fed events of every type and chat id,
\* with a voice Message for the recording the events name.
NextBus ==
    \/ \E kind \in Kinds : Connect("k1", kind, OwnerToken("c1"), "c1")
    \/ \E k \in Conns : Join(k)
    \/ \E v \in VoiceIds : UploadVoice("u1", v, NoChatId)
    \/ \E k \in Conns, v \in VoiceIds : RecvVoice(k, v, NoMsg)
    \/ \E k \in Conns, ev \in BusEvents : BusEvent(k, ev)
    \/ \E k \in Conns : Deliver(k)
    \/ \E k \in Conns, o \in Outcomes : CallCompletion(k, o)
    \/ \E k \in Conns, o \in Outcomes : CallTwinApi(k, o)

SpecBus == InitOpen /\ [][NextBus]_vars

\* A stored history of n text Messages: every "other"-th row belongs to chat
\* c2, and row i is the user's when i + a is a multiple of b.
History(n, a, b, other) ==
    [i \in 1..n |->
        Row(IF other > 0 /\ i % other = 0 THEN "c2" ELSE "c1", (i + a) % b = 0,
            "text", UserText, NoMsg, NoVoice, 0, "stored")]

Histories ==
    {History(n, a, b, other) :
        n \in 0..MaxHistory, a \in 0..1, b \in 1..3, other \in {0, 9}}

InitHistory ==
    /\ chats = [c \in Chats |-> [user_has_access |-> TRUE, twin_is_active |-> TRUE,
                                  last_active |-> "never"]]
    /\ messages \in Histories
    /\ InitIdle

\* One text frame on a ChatConsumer socket of a chat with a stored history.
NextContext ==
    \/ Connect("k1", "chat", OwnerToken("c1"), "c1")
    \/ \E k \in Conns : Join(k)
    \/ \E k \in Conns : RecvText(k, NoMsg)
    \/ \E k \in Conns, o \in Outcomes : CallCompletion(k, o)
    \/ \E k \in Conns : Deliver(k)

SpecContext == InitHistory /\ [][NextContext]_vars

\* Voice uploads of either user with any chat_id, the worker, and one socket
\* of chat c1.  A started worker thread runs to its end.
NextJobs ==
    \/ \E kind \in Kinds : Connect("k1", kind, OwnerToken("c1"), "c1")
    \/ \E k \in Conns : Join(k)
    \/ \E k \in Conns, v \in VoiceIds : RecvVoice(k, v, NoMsg)
    \/ \E u \in Users, v \in VoiceIds, c \in Chats \cup {NoChatId} :
         UploadVoice(u, v, c)
    \/ \E v \in VoiceIds, o \in JobOutcomes : RunTranscription(v, o)
    \/ \E k \in Conns, o \in Outcomes : CallCompletion(k, o)
    \/ \E k \in Conns, o \in Outcomes : CallTwinApi(k, o)
    \/ \E k \in Conns : Deliver(k)

SpecJobs ==
    /\ InitOpen /\ [][NextJobs]_vars
    /\ WF_vars(\E v \in VoiceIds, o \in JobOutcomes : RunTranscription(v, o))

\* Two sockets of chat c1 that receive text frames and frames naming nothing.
NextReject ==
    \/ \E k \in Conns, kind \in Kinds : Connect(k, kind, OwnerToken("c1"), "c1")
    \/ \E k \in Conns : Join(k)
    \/ \E k \in Conns, f \in UnusableFrames : RecvUnusable(k, f)
    \/ \E k \in Conns : RecvText(k, NoMsg)
    \/ \E k \in Conns, o \in Outcomes : CallCompletion(k, o)
    \/ \E k \in Conns, o \in Outcomes : CallTwinApi(k, o)
    \/ \E k \in Conns : Deliver(k)

SpecReject == InitOpen /\ [][NextReject]_vars

\* One upload of a valid file and the requests its worker makes.
NextSpeech ==
    \/ \E v \in VoiceIds, c \in {"c1", NoChatId} : UploadVoice("u1", v, c)
    \/ \E v \in VoiceIds, r \in UploadResponses \ {"429"} :
         UploadRequest(v, r, "absent")
    \/ \E v \in VoiceIds, h \in Hints : UploadRequest(v, "429", h)
    \/ \E v \in VoiceIds, b \in BOOLEAN : SubmitRequest(v, b)
    \/ \E v \in VoiceIds, r \in PollResponses : PollRequest(v, r)
    \/ \E v \in VoiceIds : StoreResult(v)

SpecSpeech == InitOpen /\ [][NextSpeech]_vars

\* Two sockets of chat c1, a voice Message and the worker's notification.
NextFanout ==
    \/ \E k \in Conns, kind \in Kinds : Connect(k, kind, OwnerToken("c1"), "c1")
    \/ \E k \in Conns : Join(k)
    \/ \E v \in VoiceIds, c \in {"c1", NoChatId} : UploadVoice("u1", v, c)
    \/ \E k \in Conns, v \in VoiceIds : RecvVoice(k, v, NoMsg)
    \/ \E v \in VoiceIds, o \in {"ok", "poll_error"} : RunTranscription(v, o)
    \/ \E k \in Conns, o \in Outcomes : CallCompletion(k, o)
    \/ \E k \in Conns, o \in Outcomes : CallTwinApi(k, o)
    \/ \E k \in Conns : Deliver(k)

SpecFanout == InitOpen /\ [][NextFanout]_vars

\* A socket on each of the two chats, each used by the chat's owner: text
\* frames, and read receipts naming any Message of the store.
NextReceipts ==
    \/ \E kind \in Kinds : Connect("k1", kind, OwnerToken("c1"), "c1")
    \/ \E kind \in Kinds : Connect("k2", kind, OwnerToken("c2"), "c2")
    \/ \E k \in Conns : Join(k)
    \/ \E k \in Conns : RecvText(k, NoMsg)
    \/ \E k \in Conns, o \in Outcomes : CallCompletion(k, o)
    \/ \E k \in Conns, o \in Outcomes : CallTwinApi(k, o)
    \/ \E k \in Conns : Deliver(k)
    \/ \E k \in Conns, ids \in SUBSET (MsgIds \cup {BogusId}) :
         RecvReadReceipt(k, ids)

SpecReceipts == InitOpen /\ [][NextReceipts]_vars

\* One recording, its worker and the voice frame that names it, in either
\* order, on one socket; the speech service and the twin both answer.
NextOrder ==
    \/ \E kind \in Kinds : Connect("k1", kind, OwnerToken("c1"), "c1")
    \/ \E k \in Conns : Join(k)
    \/ \E v \in VoiceIds, c \in {"c1", NoChatId} : UploadVoice("u1", v, c)
    \/ \E v \in VoiceIds : RunTranscription(v, "ok")
    \/ \E k \in Conns, v \in VoiceIds : RecvVoice(k, v, NoMsg)
    \/ \E k \in Conns : CallCompletion(k, "ok")
    \/ \E k \in Conns : CallTwinApi(k, "ok")
    \/ \E k \in Conns : Deliver(k)

SpecOrder == InitOpen /\ [][NextOrder]_vars

\* One frame, text or voice, on one socket, with every answer of the twin
\* and a worker that succeeds or fails.
NextIndicator ==
    \/ \E kind \in Kinds : Connect("k1", kind, OwnerToken("c1"), "c1")
    \/ \E k \in Conns : Join(k)
    \/ \E k \in Conns : RecvText(k, NoMsg)
    \/ \E v \in VoiceIds, c \in {"c1", NoChatId} : UploadVoice("u1", v, c)
    \/ \E v \in VoiceIds, o \in {"ok", "poll_error"} : RunTranscription(v, o)
    \/ \E k \in Conns, v \in VoiceIds : RecvVoice(k, v, NoMsg)
    \/ \E k \in Conns, o \in Outcomes : CallCompletion(k, o)
    \/ \E k \in Conns, o \in Outcomes : CallTwinApi(k, o)
    \/ \E k \in Conns : Deliver(k)

SpecIndicator == InitOpen /\ [][NextIndicator]_vars

\* Two ChatConsumer sockets of chat c1, each sending a text frame; the
\* statements of save_user_message interleave.
NextRace ==
    \/ \E k \in Conns : Connect(k, "chat", OwnerToken("c1"), "c1")
    \/ \E k \in Conns : Join(k)
    \/ \E k \in Conns : BeginText(k, NoMsg)
    \/ \E k \in Conns : SaveText(k)
    \/ \E k \in Conns, o \in Outcomes : CallCompletion(k, o)
    \/ \E k \in Conns : Deliver(k)

SpecRace == InitOpen /\ [][NextRace]_vars

\* Admission with the close of refused sockets reported to the consumer.
NextRefusal ==
    \/ \E k \in Conns, kind \in Kinds, tok \in Tokens, c \in ChatIds :
         Connect(k, kind, tok, c)
    \/ \E k \in Conns : Join(k)
    \/ \E k \in Conns : Disconnect(k)
    \/ \E k \in Conns : DisconnectRefused(k)

SpecRefusal == Init /\ [][NextRefusal]_vars

\* ============================================================ properties
Subscribed(k) == \E c \in ChatIds : k \in groups[c]

\* The rows made directly by an operation: a frame's user Message, or the
\* Message of a REST create.
MadeByOperation(i) == messages[i].is_from_user \/ messages[i].by = "rest"

\* C1: no operation that creates a Message persists a row when the reply_to it
\* carries names a Message of a different chat.
C1_CrossChatReplyNeverPersisted ==
    \A i \in MsgIds :
        (MadeByOperation(i) /\ messages[i].asked \in MsgIds) =>
            messages[messages[i].asked].chat = messages[i].chat

\* Events and frames that carry a Message.
IsMessage(e) == e.type \in {"chat_message", "message"}
IsUserMsg(e, f) == IsMessage(e) /\ e.is_from_user /\ e.frame = f
IsReply(e, f) == IsMessage(e) /\ ~e.is_from_user /\ e.frame = f
TwinTyping(e, b) ==
    e.type = "typing_indicator" /\ e.user_id = "twin" /\ e.is_typing = b

UserRows(f) == {i \in MsgIds : messages[i].is_from_user /\ messages[i].frame = f}
TwinRows(f) == {i \in MsgIds : ~messages[i].is_from_user /\ messages[i].frame = f}
Published(c, f) == {j \in 1..Len(topic[c]) : IsUserMsg(topic[c][j].ev, f)}
Replied(c, f) == {j \in 1..Len(topic[c]) : IsReply(topic[c][j].ev, f)}
Received(k, f) == {j \in 1..Len(out[k]) : IsUserMsg(out[k][j], f)}

\* C2: every accepted text frame has exactly one user Message row and exactly
\* one chat_message broadcast, on the topic of its chat only; on the topic
\* the broadcast comes before every broadcast of the twin's reply to the
\* frame, and a subscriber that was sent the user's message and has received
\* the reply received the user's message first, once.
C2_OneRowOneBroadcastFirst ==
    \A f \in 1..nframes :
        /\ Cardinality(UserRows(f)) = 1
        /\ \A i \in UserRows(f) :
             LET c == messages[i].chat IN
             /\ Cardinality(Published(c, f)) = 1
             /\ \A d \in ChatIds \ {c} : Published(d, f) = {}
             /\ \A j \in Published(c, f) :
                  /\ topic[c][j].ev.id = i
                  /\ \A l \in Replied(c, f) : j < l
                  /\ \A k \in Conns :
                       /\ Cardinality(Received(k, f)) <= 1
                       /\ \A l \in 1..Len(out[k]) :
                            IsReply(out[k][l], f) =>
                              /\ \A r \in Received(k, f) : r < l
                              /\ k \in topic[c][j].to => Received(k, f) # {}

C2_Witness ==
    \E f \in 1..nframes, k1, k2 \in Conns :
        /\ k1 # k2
        /\ \E i \in UserRows(f) : messages[i].by = k1
        /\ \A k \in {k1, k2} :
             \E j, l \in 1..Len(out[k]) :
                 j < l /\ IsUserMsg(out[k][j], f) /\ IsReply(out[k][l], f)

\* C3: however often a transcription_completed notification is delivered,
\* the voice Message's transcript is written at most once and at most one
\* twin reply is persisted and broadcast for the notification.
C3_RedeliveryIsNoOp ==
    /\ \A i \in MsgIds : messages[i].edits <= 1
    /\ \A i, j \in TwinRows(TransFrame(1)) : i = j
    /\ \A c \in ChatIds : \A i, j \in Replied(c, TransFrame(1)) : i = j

\* C4: a handler that asks the twin to answer a voice message does so only
\* with the transcript of a job that ended with a successful, non-empty
\* transcript.
C4_OnlySuccessfulTranscriptsForwarded ==
    \A k \in Conns :
        (conn[k].pc = "call" /\ loc[k].origin \in {"voice", "transcription"}) =>
            /\ loc[k].voice \in VoiceIds
            /\ voices[loc[k].voice].result = "ok"
            /\ loc[k].content = TranscriptText

\* C5: whatever the completion endpoint does, a text frame whose handler has
\* ended has a twin reply persisted and broadcast on its chat's topic, and no
\* error frame is sent to a client.
C5_AlwaysATwinReply ==
    /\ \A k \in Conns : \A j \in 1..Len(out[k]) : out[k][j].type # "error"
    /\ \A f \in 1..nframes :
         (\A k \in Conns : ~(conn[k].pc = "call" /\ loc[k].frame = f)) =>
             \A i \in UserRows(f) :
                 TwinRows(f) # {} /\ Replied(messages[i].chat, f) # {}

FirstInChat(i) == \A j \in 1..(i - 1) : messages[j].chat # messages[i].chat

\* C6: a text frame that is the first Message of its chat causes no request
\* to the completion endpoint, and the twin reply persisted for it is the
\* greeting with the twin's name.
C6_FirstMessageGreetsWithoutCall ==
    \A f \in 1..nframes :
        \A i \in UserRows(f) :
            FirstInChat(i) =>
                /\ f \notin apiCalls
                /\ \A j \in TwinRows(f) :
                     messages[j].text_content = Greeting(TwinName(messages[i].chat))

IsTwinReply(e) == IsMessage(e) /\ ~e.is_from_user

BadToken(tok) ==
    \/ tok.kind \in {"absent", "garbage", "expired"}
    \/ tok.kind = "valid" /\ tok.user_id \notin Users

\* C8: a connection whose token is absent, invalid, expired or names no
\* existing user is Closed: it is not accepted, no frame has been sent to it,
\* and it is subscribed to no chat topic.
C8_BadTokenClosed ==
    \A k \in Conns :
        BadToken(conn[k].tok) =>
            /\ conn[k].st = "closed"
            /\ out[k] = <<>>
            /\ ~Subscribed(k)

C8_Witness ==
    \E k \in Conns :
        /\ conn[k].tok.kind = "expired"
        /\ conn[k].tok.user_id = ChatOwner("c1")
        /\ conn[k].st = "closed"
        /\ \E j \in Conns : j # k /\ conn[j].st = "active"

\* C9: a connection is subscribed to a chat topic only if, when it connected,
\* its user owned that chat and both flags of the chat were true; a
\* connection that asked for any other chat is closed, has been sent nothing
\* and is in no topic.
C9_SubscribedOnlyIfAllowed ==
    \A k \in Conns :
        /\ \A c \in ChatIds :
               k \in groups[c] => conn[k].chat = c /\ conn[k].owned /\ conn[k].flags
        /\ conn[k].st \in {"joining", "active"} => conn[k].owned /\ conn[k].flags
        /\ (conn[k].tok # NoToken /\ ~(conn[k].owned /\ conn[k].flags)) =>
               conn[k].st = "closed" /\ out[k] = <<>> /\ ~Subscribed(k)

C9_Witness ==
    \E k, j \in Conns :
        /\ k \in groups["c1"] /\ conn[k].st = "active"
        /\ conn[j].st = "closed" /\ conn[j].tok = OwnerToken("c1")
        /\ conn[j].chat = "c1" /\ conn[j].owned /\ ~conn[j].flags

\* C10: a user Message is persisted in a chat only while both access flags
\* of the chat are true.
C10_UserRowsOnlyWhileOpen ==
    \A i \in MsgIds : messages[i].is_from_user => messages[i].open

C12_EstablishedFirstWithSummary ==
    \A k \in Conns :
        /\ conn[k].st = "active" =>
               k \in groups[conn[k].chat] /\ out[k] # << >>
        /\ out[k] # << >> =>
               /\ out[k][1].type = "connection_established"
               /\ out[k][1].chat_id \in Chats
               /\ out[k][1].text = TwinName(out[k][1].chat_id)
               /\ out[k][1].summary # << >>
               /\ \A j \in 2..Len(out[k]) : out[k][j].type # "connection_established"

\* The error frames receive sends for frames it cannot route.
ProtocolErrors(k) ==
    {i \in DOMAIN out[k] :
        /\ out[k][i].type = "error"
        /\ \E f \in BadFrames : receive_error(f) = << out[k][i] >>}

\* C13: a frame that is malformed JSON, a non-object JSON value or an object
\* of unknown type gets exactly one error event; handling it persists and
\* publishes nothing and leaves the connection active and ready.
C13_ProtocolErrorsNonFatal ==
    /\ [](\A k \in Conns : Cardinality(ProtocolErrors(k)) = conn[k].bad)
    /\ [][\A k \in Conns :
            conn'[k].bad # conn[k].bad =>
                /\ messages' = messages /\ topic' = topic /\ inbox' = inbox
                /\ conn'[k].st = "active" /\ conn'[k].pc = "idle"]_vars

\* A read receipt published to chat c by this step.
ReceiptPublished(c) ==
    /\ Len(topic'[c]) = Len(topic[c]) + 1
    /\ topic'[c][Len(topic'[c])].ev.type = "read_receipt_update"

\* C14: a read_receipt frame leaves every Message it names with status read
\* and republishes the id list to the chat topic; a Message whose status is
\* read never gets another status.
C14_ReadIsMarkedAndFinal ==
    /\ [][\A c \in ChatIds :
            ReceiptPublished(c) =>
                \A i \in topic'[c][Len(topic'[c])].ev.ids \cap MsgIds :
                    messages'[i].status = "read"]_vars
    /\ [][\A i \in MsgIds :
            messages[i].status = "read" => messages'[i].status = "read"]_vars

UserTyping(e) == e.type = "typing_indicator" /\ e.user_id \in Users

\* The users' typing events published to chat c while socket k was in its
\* group, in publish order.
TypingSentTo(k, c) ==
    LET hits == SelectSeq(topic[c], LAMBDA t : UserTyping(t.ev) /\ k \in t.to)
    IN [i \in 1..Len(hits) |-> hits[i].ev]

\* C15: a typing_indicator frame publishes one event with the sender's id and
\* the frame's boolean to every socket of the chat, the sender's included,
\* and saves nothing; each socket gets the events of its chat, identical and
\* in publish order, so that the last one written is the last one received.
C15_TypingFanOut ==
    /\ [](\A k \in Conns :
            conn[k].st = "active" =>
                SelectSeq(out[k] \o inbox[k], UserTyping)
                    = TypingSentTo(k, conn[k].chat))
    /\ [][\A k \in Conns :
            Len(conn'[k].typed) > Len(conn[k].typed) =>
                LET c == conn[k].chat
                    b == conn'[k].typed[Len(conn'[k].typed)]
                    ev == TypingEv(b, conn[k].user)
                IN /\ k \in groups[c]
                   /\ topic'[c] = Append(topic[c], [ev |-> ev, to |-> groups[c]])
                   /\ \A j \in Conns :
                         inbox'[j] = IF j \in groups[c] THEN Append(inbox[j], ev)
                                     ELSE inbox[j]
                   /\ messages' = messages /\ chats' = chats /\ voices' = voices]_vars

\* Both sockets of chat c1 have been sent the same "typing" event of u1, the
\* sender among them.
C15_Witness ==
    /\ conn["k1"].st = "active" /\ conn["k2"].st = "active"
    /\ conn["k1"].chat = "c1" /\ conn["k2"].chat = "c1"
    /\ conn["k1"].typed = << TRUE >>
    /\ \A k \in Conns :
          \E i \in DOMAIN out[k] : out[k][i] = TypingEv(TRUE, "u1")

\* The next event of socket k names a chat other than the socket's.
NextEventOfOtherChat(k) ==
    /\ conn[k].st = "active" /\ conn[k].pc = "idle"
    /\ inbox[k] # << >>
    /\ Head(inbox[k]).chat_id \notin {NoChatId, conn[k].chat}

\* C16: an event that reaches a connection with a chat id other than the
\* connection's own is not forwarded to the client and starts no processing.
C16_OtherChatEventsDropped ==
    [][\A k \in Conns :
          NextEventOfOtherChat(k) =>
              /\ out'[k] = out[k]
              /\ conn'[k].pc = "idle"
              /\ messages' = messages /\ topic' = topic]_vars

\* The user and assistant entries of the request socket k is about to make.
Turns(k) == SelectSeq(loc[k].context, LAMBDA e : e.role \in {"user", "assistant"})

AtRequest(k) == conn[k].pc = "call" /\ conn[k].kind = "chat"

\* C17: whatever the length of the chat's history, the request for one
\* completion holds at most max_context_length user/assistant entries; they
\* are the chat's most recent Messages, oldest first, each with the role its
\* is_from_user gives it.
C17_ContextIsRecentWindow ==
    \A k \in Conns :
        AtRequest(k) =>
            LET rows == ChatRows(messages, conn[k].chat)
                n == Len(Turns(k))
            IN /\ n <= max_context_length
               /\ n = IF Len(rows) < max_context_length THEN Len(rows)
                      ELSE max_context_length
               /\ \A j \in 1..n :
                     /\ Turns(k)[j].id = rows[Len(rows) - n + j]
                     /\ Turns(k)[j].role =
                          IF messages[Turns(k)[j].id].is_from_user THEN "user"
                          ELSE "assistant"
               /\ \A j \in 1..Len(loc[k].context) :
                     loc[k].context[j].role \in {"system", "user", "assistant"}

\* A request made for a chat with more Messages than the window holds, some
\* of them the user's and some the twin's, and some of another chat between.
C17_Witness ==
    \E k \in Conns :
        /\ AtRequest(k)
        /\ Len(ChatRows(messages, conn[k].chat)) > max_context_length
        /\ Len(Turns(k)) = max_context_length
        /\ \E i, j \in 1..Len(Turns(k)) :
              Turns(k)[i].role = "user" /\ Turns(k)[j].role = "assistant"
        /\ \E i \in MsgIds : messages[i].chat # conn[k].chat

\* The ways a stored file fails the size and signature tests.
ValidationFailures == {"zero", "small", "toolarge", "badformat"}

\* The pipeline runs made for recording v: the one its notification starts
\* and the one of a voice frame that names it.
VoiceRuns(v) ==
    {TransFrame(1)} \cup {messages[i].frame : i \in {j \in MsgIds : messages[j].voice_note = v}}

\* C18: for a recording whose file fails validation the speech service is
\* not contacted, no transcription_completed event is published, and no
\* request is made to the twin and no twin reply saved for it.
C18_InvalidFileShortCircuits ==
    \A v \in VoiceIds :
        voices[v].result \in ValidationFailures =>
            /\ voices[v].contacted = {}
            /\ \A c \in ChatIds : \A i \in DOMAIN topic[c] :
                  ~(topic[c][i].ev.type = "transcription_completed"
                    /\ topic[c][i].ev.voice_id = v)
            /\ apiCalls \cap VoiceRuns(v) = {}
            /\ \A i \in MsgIds :
                  ~(~messages[i].is_from_user /\ messages[i].frame \in VoiceRuns(v))

JobDone(v) == voices[v].job \in {"completed", "failed"}

\* The transcription_completed events published for recording v.
Notifications(v) ==
    UNION {{<<c, i>> : i \in {j \in DOMAIN topic[c] :
                                  /\ topic[c][j].ev.type = "transcription_completed"
                                  /\ topic[c][j].ev.voice_id = v}} :
           c \in ChatIds}

\* C19: the job of an upload starts running, ends completed or failed, and
\* ends once: a finished recording is not written again, and at most one
\* transcription_completed event is published for it.
C19_JobEndsOnce ==
    /\ [](\A v \in VoiceIds :
            /\ Cardinality(Notifications(v)) <= 1
            /\ Notifications(v) # {} => voices[v].job = "completed")
    /\ [][\A v \in VoiceIds :
            /\ JobDone(v) => voices'[v] = voices[v]
            /\ voices'[v].job # voices[v].job =>
                  \/ voices[v].job = "none" /\ voices'[v].job = "running"
                  \/ voices[v].job = "running" /\ JobDone(v)']_vars
    /\ \A v \in VoiceIds : voices[v].job = "running" ~> JobDone(v)

\* A recording whose job has completed and whose one notification has been
\* answered by the twin.
C19_Witness ==
    \E v \in VoiceIds :
        /\ voices[v].job = "completed"
        /\ Cardinality(Notifications(v)) = 1
        /\ TransFrame(1) \in apiCalls

\* C20: the transcription_completed event of a recording is published only
\* to the topic of a chat that belongs to the user who uploaded it and that
\* holds the recording's voice Message.
C20_NotifiedOnOwnChatOnly ==
    \A v \in VoiceIds : \A n \in Notifications(v) :
        /\ n[1] \in Chats
        /\ ChatOwner(n[1]) = voices[v].by
        /\ VoiceMessage(v) # NoMsg => messages[VoiceMessage(v)].chat = n[1]

\* The error frames sent for frame number n, as <<socket, position>>.
Rejections(n) ==
    UNION {{<<k, i>> : i \in {j \in DOMAIN out[k] :
                                  /\ out[k][j].type = "error"
                                  /\ out[k][j].frame = n}} :
           k \in Conns}

\* C21: a voice or file frame without an id, or naming a recording or file
\* that does not exist, is answered with one error frame to its sender and
\* nothing else: no Message, no event on the topic, no request to the twin.
\* Every other frame here is a text frame, which saves the user's Message.
C21_UnusableFramesOnlyAnswered ==
    \A n \in 1..nframes :
        \/ \E i \in MsgIds : messages[i].frame = n /\ messages[i].is_from_user
        \/ /\ Cardinality(Rejections(n)) = 1
           /\ \A i \in MsgIds : messages[i].frame # n
           /\ \A c \in ChatIds : \A i \in DOMAIN topic[c] : topic[c][i].ev.frame # n
           /\ n \notin apiCalls

\* A rejected file frame on one of two sockets of the chat.
C21_Witness ==
    /\ conn["k1"].st = "active" /\ conn["k2"].st = "active"
    /\ \E n \in 1..nframes : \E r \in Rejections(n) :
          out[r[1]][r[2]].code = "file_not_found"

\* C22: at most max_retries upload requests are made for a job; a 401 is the
\* last request of the job; a 429 is followed by the sleep its Retry-After
\* header asks for; once the upload has failed nothing is submitted or polled.
C22_UploadRetriesBounded ==
    \A v \in VoiceIds :
        LET svc == voices[v].svc
            a == svc.attempts
        IN /\ Len(a) <= max_retries
           /\ \A i \in DOMAIN a :
                 /\ a[i].resp = "401" =>
                       i = Len(a) /\ svc.stage = "done" /\ svc.outcome = "upload_fail"
                 /\ a[i].resp = "429" /\ a[i].hint # "absent" => a[i].after # << >>
           /\ (Len(a) = max_retries /\ a[Len(a)].resp # "200") =>
                 svc.stage = "done" /\ svc.outcome = "upload_fail"
           /\ svc.outcome = "upload_fail" => svc.submits = 0 /\ svc.polls = 0

\* C23: a job makes at most max_attempts status queries; a completed status
\* ends it with the transcript, or with "No speech detected." when the
\* transcript is empty; an error status ends it failed, with the service's
\* error text stored.
C23_PollingBoundedAndMapped ==
    \A v \in VoiceIds :
        /\ voices[v].svc.polls <= max_attempts
        /\ JobDone(v) =>
              /\ voices[v].svc.last = "completed" =>
                    voices[v].job = "completed"
                    /\ voices[v].transcription = TranscriptText
              /\ voices[v].svc.last \in {"completed_empty", "completed_null"} =>
                    voices[v].transcription = "No speech detected."
              /\ voices[v].svc.last = "error" =>
                    voices[v].job = "failed"
                    /\ voices[v].transcription = "Transcription error: Unknown error"

\* The transcription_completed events published on the topic of chat c.
Completions(c) ==
    {i \in DOMAIN topic[c] : topic[c][i].ev.type = "transcription_completed"}

\* C24: one transcription_completed event on a topic, whatever the number of
\* sockets subscribed to it, makes at most one twin reply: one Message row
\* and one broadcast of it.
C24_OneReplyPerEvent ==
    \A c \in Chats :
        Cardinality(Completions(c)) = 1 =>
            /\ Cardinality(TwinRows(TransFrame(1))) <= 1
            /\ Cardinality({i \in DOMAIN topic[c] :
                                IsReply(topic[c][i].ev, TransFrame(1))}) <= 1

\* The read_receipt frames handled on sockets of chat c that named Message i.
ReceiptsNaming(c, i) ==
    {j \in DOMAIN topic[c] : topic[c][j].ev.type = "read_receipt_update"
                              /\ i \in topic[c][j].ev.ids}

\* C25: a read_receipt frame changes the status of Messages of its socket's
\* chat only: a Message is read only if a frame on a socket of the Message's
\* own chat named it.
C25_ReceiptsStayInChat ==
    \A i \in MsgIds :
        messages[i].status = "read" => ReceiptsNaming(messages[i].chat, i) # {}

\* Nothing is left to do: no handler is waiting for the twin and no event is
\* waiting on a channel.
Quiet == \A k \in Conns : conn[k].pc = "idle" /\ inbox[k] = << >>

\* The twin replies saved, and those broadcast, for recording v.
VoiceReplyRows(v) == UNION {TwinRows(f) : f \in VoiceRuns(v)}
VoiceReplyEvents(v, c) ==
    {i \in DOMAIN topic[c] : \E f \in VoiceRuns(v) : IsReply(topic[c][i].ev, f)}

\* C26: a voice Message whose recording was transcribed gets one twin reply,
\* saved and broadcast, whichever of the worker and the voice frame came
\* first: never more than one, and one once nothing is left to do.
C26_OneReplyPerVoiceMessage ==
    \A v \in VoiceIds :
        (VoiceMessage(v) # NoMsg /\ voices[v].job = "completed") =>
            LET c == messages[VoiceMessage(v)].chat
            IN /\ Cardinality(VoiceReplyRows(v)) <= 1
               /\ Cardinality(VoiceReplyEvents(v, c)) <= 1
               /\ Quiet => /\ Cardinality(VoiceReplyRows(v)) = 1
                           /\ Cardinality(VoiceReplyEvents(v, c)) = 1

\* The twin's typing_indicator events on the topic of chat c, by position.
TwinIndicators(c) ==
    {i \in DOMAIN topic[c] : /\ topic[c][i].ev.type = "typing_indicator"
                              /\ topic[c][i].ev.user_id = "twin"}

\* Every handler has run to its end and every worker has finished.
Settled == Quiet /\ \A v \in VoiceIds : voices[v].job # "running"

\* C27: a twin typing_indicator with is_typing true is followed on its topic
\* by one with is_typing false: once every handler and worker has finished,
\* no topic is left with a typing-true event after which no typing-false
\* event came.
C27_TypingIsCleared ==
    Settled =>
        \A c \in Chats : \A i \in TwinIndicators(c) :
            topic[c][i].ev.is_typing =>
                \E j \in TwinIndicators(c) : j > i /\ ~topic[c][j].ev.is_typing

\* The twin Messages of chat c that are the first-message greeting.
Greetings(c) ==
    {i \in MsgIds : /\ messages[i].chat = c /\ ~messages[i].is_from_user
                    /\ messages[i].text_content = Greeting(TwinName(c))}

\* C28: of the text frames of a chat at most one is taken for the chat's
\* first message, and the chat gets at most one greeting.
C28_OneFirstMessage ==
    \A c \in Chats :
        /\ Cardinality({k \in Conns : conn[k].chat = c /\ loc[k].is_first}) <= 1
        /\ Cardinality(Greetings(c)) <= 1

\* Socket k was refused at the access check: an authenticated user asked for
\* a chat that does not exist, is not theirs, or has an access flag off.
RefusedAtAccess(k) ==
    /\ conn[k].st = "closed" /\ conn[k].tok # NoToken
    /\ ScopeUser(conn[k].tok) \in Users
    /\ ~(conn[k].owned /\ conn[k].flags)

\* C29: a connection refused at the access check leaves the store as it was
\* through connect, close and disconnect: the disconnect of such a socket
\* changes no chat row and no Message.
C29_RefusalLeavesStore ==
    [][\A k \in Conns :
          (RefusedAtAccess(k) /\ conn'[k].cleanups > conn[k].cleanups) =>
              chats' = chats /\ messages' = messages]_vars

\* C30: a broadcast message event carries the reply reference that is stored
\* on its Message row: for a frame whose replyTo names no Message neither
\* the row nor the event has one.
C30_EventReplyMatchesRow ==
    \A c \in Chats : \A i \in DOMAIN topic[c] :
        LET e == topic[c][i].ev
        IN (IsMessage(e) /\ e.id \in MsgIds) => e.reply_to = messages[e.id].reply_to
====
